---------------------------- MODULE Spec2Model ----------------------------
(***************************************************************************)
(* Amazon Ads Audit dashboard (src/amazon_ads_audit_Server.py).            *)
(*                                                                         *)
(* The Dash callback update_output recomputes, on every change of one of   *)
(* its inputs, the campaign, keyword and search-term tables from the two   *)
(* uploaded sheets: load_and_clean_data, calculate_metrics, then the       *)
(* drill-down filters driven by the triggering button and by the three     *)
(* dropdown values.                                                        *)
(*                                                                         *)
(* Numbers are pandas float64 cells.  They are modelled as exact           *)
(* fractions n/d extended with the IEEE values the code can produce:       *)
(* d = 0 and n = 0 is NaN, d = 0 and n # 0 is +/- infinity.  Binary        *)
(* rounding error of float64 is modelled where a comparison of the code    *)
(* depends on it (Times100), and nowhere else.                             *)
(*                                                                         *)
(* The uploaded sheets carry the columns of the Amazon reports; the model  *)
(* keeps the columns the metrics and the filters read.  The returned       *)
(* tables are the frames at line 394, before the projection on the columns *)
(* shown (lines 408-428), which drops no row.  Ad groups and placements    *)
(* are not used after load_and_clean_data.  The n_clicks inputs are never  *)
(* read: a click acts through ctx.triggered only.                          *)
(*                                                                         *)
(* Lines 464-472 of the file, after the return of update_output, are       *)
(* deployment statements indented by 3 columns: Python rejects the file    *)
(* with an IndentationError.  The model is of the definitions as written   *)
(* (lines 13-462), as they run once those lines are removed.               *)
(***************************************************************************)
EXTENDS Integers, Sequences, FiniteSets, TLC

(***************************************************************************)
(* float64 cells                                                           *)
(***************************************************************************)
Abs(i) == IF i < 0 THEN -i ELSE i

RECURSIVE GCD(_, _)
GCD(a, b) == IF b = 0 THEN a ELSE GCD(b, a % b)

\* The canonical cell for the fraction n/d.
Frac(n, d) ==
    IF d = 0
    THEN [n |-> IF n > 0 THEN 1 ELSE IF n < 0 THEN -1 ELSE 0, d |-> 0]
    ELSE LET s == IF d < 0 THEN -1 ELSE 1
             g == GCD(Abs(n), Abs(d))
         IN  [n |-> (s * n) \div g, d |-> (s * d) \div g]

Num(i) == [n |-> i, d |-> 1]
NaN == [n |-> 0, d |-> 0]
Inf == [n |-> 1, d |-> 0]
NegInf == [n |-> -1, d |-> 0]

IsNaN(x) == x.d = 0 /\ x.n = 0
IsInf(x) == x.d = 0 /\ x.n # 0
IsFinite(x) == x.d # 0

\* x / y of two float64 Series cells: pandas never raises, it yields inf or NaN.
Div(x, y) ==
    IF IsNaN(x) \/ IsNaN(y) THEN NaN
    ELSE IF IsInf(x) THEN (IF IsInf(y) THEN NaN
                           ELSE IF y.n < 0 THEN Frac(-x.n, 0) ELSE x)
    ELSE IF IsInf(y) THEN Num(0)
    ELSE Frac(x.n * y.d, x.d * y.n)

\* x * y
Mul(x, y) ==
    IF IsNaN(x) \/ IsNaN(y) THEN NaN
    ELSE Frac(x.n * y.n, x.d * y.d)

\* x < y, x > y, x == y, x >= y on floats: every comparison with NaN is False.
Lt(x, y) ==
    /\ ~IsNaN(x)
    /\ ~IsNaN(y)
    /\ IF IsInf(x) \/ IsInf(y)
       THEN (IF IsInf(x) THEN x.n ELSE 0) < (IF IsInf(y) THEN y.n ELSE 0)
       ELSE x.n * y.d < y.n * x.d

Gt(x, y) == Lt(y, x)

Eq(x, y) == ~IsNaN(x) /\ ~IsNaN(y) /\ x = y

Ge(x, y) == Gt(x, y) \/ Eq(x, y)

\* Series.round(2): to the nearest hundredth, ties to even; inf and NaN stay.
RoundHalfEven(n, d) ==
    LET q == n \div d
        r == n % d
    IN  IF 2 * r < d THEN q
        ELSE IF 2 * r > d THEN q + 1
        ELSE IF q % 2 = 0 THEN q ELSE q + 1

Round2(x) == IF IsFinite(x) THEN Frac(RoundHalfEven(x.n * 100, x.d), 100) ELSE x

\* Series.replace(a, b) on one cell.
Replace(x, a, b) == IF Eq(x, a) THEN b ELSE x

\* Series.replace([inf, -inf], 0) on one cell.
ReplaceInf(x, b) == IF IsInf(x) THEN b ELSE x

\* Series.fillna(v) on one cell.
Fillna(x, v) == IF IsNaN(x) THEN v ELSE x


(***************************************************************************)
(* Cells of other types                                                    *)
(***************************************************************************)
\* A blank spreadsheet cell in a text column (pandas reads it as a missing value).
NA == "<NA>"

KeywordActions == {"Increase Bid", "Reduce Bid", "Pause", "Do Nothing"}
SearchTermActions == {"Graduate", "Negate", "Do Nothing"}

\* What row["Match Type"].strip().lower() raises on a missing (float NaN) cell.
AttributeError == "AttributeError"

\* str.strip().lower() on the match types of the reports.
StripLower(s) ==
    CASE s = "Exact" -> "exact"
      [] s = " EXACT " -> "exact"
      [] s = "exact" -> "exact"
      [] s = "Broad" -> "broad"
      [] s = "broad" -> "broad"
      [] s = "Phrase " -> "phrase"
      [] OTHER -> s

\* Ascending order of str values, as sort_values compares them.
CSTOrder == <<"blue shoes", "red shoes", "shoes">>
Collate(s) == CHOOSE i \in 1..Len(CSTOrder) : CSTOrder[i] = s

(***************************************************************************)
(* DataFrame helpers: a table is the sequence of its rows                  *)
(***************************************************************************)
RECURSIVE Concat(_)
Concat(ss) == IF ss = <<>> THEN <<>> ELSE Head(ss) \o Concat(Tail(ss))

\* Series.unique(): the distinct values in order of first occurrence.
RECURSIVE Unique(_)
Unique(s) ==
    IF s = <<>> THEN <<>>
    ELSE LET init == Unique(SubSeq(s, 1, Len(s) - 1))
             last == s[Len(s)]
         IN  IF \E i \in 1..Len(init) : init[i] = last THEN init ELSE Append(init, last)

Range(s) == {s[i] : i \in 1..Len(s)}

Column(df, c) == [i \in 1..Len(df) |-> df[i][c]]

\* df[df[c].isin(values)]
Isin(df, c, values) == SelectSeq(df, LAMBDA r : r[c] \in values)

\* df[df["Action"] == label]
WithAction(df, label) == SelectSeq(df, LAMBDA r : r.Action = label)

\* df.duplicated(subset=["CST"]) with pandas' default keep="first": the first
\* row of every repeated search term is not marked.
DuplicatedKeepFirst(df) ==
    LET RECURSIVE Marked(_)
        Marked(n) ==
            IF n = 0 THEN <<>>
            ELSE Marked(n - 1) \o
                 (IF \E j \in 1..(n - 1) : df[j].CST = df[n].CST THEN <<df[n]>> ELSE <<>>)
    IN  Marked(Len(df))

\* df[df.duplicated(subset=["CST"], keep=False)]
Duplicated(df) ==
    SelectSeq(df, LAMBDA r : Cardinality({i \in 1..Len(df) : df[i].CST = r.CST}) >= 2)

\* df.sort_values(by="CST", ascending=True): insertion of each row after the
\* rows that do not compare greater (the order numpy gives short object arrays).
RECURSIVE SortByCST(_)
SortByCST(df) ==
    IF df = <<>> THEN <<>>
    ELSE LET init == SortByCST(SubSeq(df, 1, Len(df) - 1))
             row == df[Len(df)]
             k == Cardinality({i \in 1..Len(init) : Collate(init[i].CST) <= Collate(row.CST)})
         IN  SubSeq(init, 1, k) \o <<row>> \o SubSeq(init, k + 1, Len(init))

(***************************************************************************)
(* load_and_clean_data                                                     *)
(***************************************************************************)
\* keywords.merge(campaigns[["Campaign", "Campaign_1"]], on "Campaign_1", how="left"):
\* one output row per matching campaign row, one with a missing Campaign_y if none.
MergeRow(k, campaigns) ==
    LET matches == SelectSeq(campaigns, LAMBDA c : c.Campaign_1 = k.Campaign_1)
        joined(name) ==
            [Campaign_x |-> k.Campaign, Campaign_y |-> name, Campaign_1 |-> k.Campaign_1,
             Keyword |-> k.Keyword, Clicks |-> k.Clicks, Spend |-> k.Spend,
             Sales |-> k.Sales, Orders |-> k.Orders, CPC |-> k.CPC]
    IN  IF matches = <<>> THEN <<joined(NA)>>
        ELSE [i \in 1..Len(matches) |-> joined(matches[i].Campaign)]

Merge(keywords, campaigns) ==
    Concat([i \in 1..Len(keywords) |-> MergeRow(keywords[i], campaigns)])

load_and_clean_data(bulk_data, str_data) ==
    LET bulk == SelectSeq(bulk_data, LAMBDA r : r.Entity # NA)
        str == SelectSeq(str_data, LAMBDA r : r.Campaign # NA /\ r.CST # NA)
        campaigns == SelectSeq(bulk, LAMBDA r : r.Entity = "Campaign")
        keywords == SelectSeq(bulk, LAMBDA r : r.Entity = "Keyword")
    IN  [bulk_data |-> bulk,
         campaigns |-> campaigns,
         keywords |-> Merge(keywords, campaigns),
         search_terms |-> str]

(***************************************************************************)
(* calculate_metrics                                                       *)
(***************************************************************************)
\* Campaign-level metrics.  The bulk sheet's "Impressions" column was renamed
\* to "Imp", so the required column "Impressions" is absent and inserted as 0.
CampaignMetrics(c) ==
    LET Impressions == Num(0)
    IN  [Campaign |-> c.Campaign, Campaign_1 |-> c.Campaign_1,
         Imp |-> c.Imp, Impressions |-> Impressions,
         Clicks |-> c.Clicks, Sales |-> c.Sales, Orders |-> c.Orders,
         CTR |-> Round2(Mul(Fillna(Div(c.Clicks, Impressions), Num(0)), Num(100))),
         CPC |-> Round2(Mul(Div(c.Spend, Replace(c.Clicks, Num(0), Num(1))), Num(100))),
         ACOS |-> Round2(Mul(Div(c.Spend, Replace(c.Sales, Num(0), Num(1))), Num(100))),
         ConversionRate |-> Round2(Mul(Fillna(Div(c.Orders, c.Clicks), Num(0)), Num(100))),
         Spend |-> Round2(c.Spend)]

\* keywords["RPC"], keywords["Max Bid"] before rounding
RPC(k) == Div(k.Sales, Replace(k.Clicks, Num(0), Num(1)))
MaxBid(k, target_acos) == Mul(RPC(k), target_acos)

\* The lambda with Max Bid compared to the spend of the row, not to its CPC.
KeywordActionBySpend(k, target_acos) ==
    IF Gt(MaxBid(k, target_acos), k.Spend) THEN "Increase Bid"
    ELSE IF Lt(MaxBid(k, target_acos), k.Spend) THEN "Reduce Bid"
    ELSE IF Gt(k.Clicks, Num(4)) /\ Eq(k.Orders, Num(0)) THEN "Pause"
    ELSE "Do Nothing"

\* The lambda with the Pause rule tested before the two bid rules.
KeywordActionPauseFirst(k, target_acos) ==
    IF Gt(k.Clicks, Num(4)) /\ Eq(k.Orders, Num(0)) THEN "Pause"
    ELSE IF Gt(MaxBid(k, target_acos), k.CPC) THEN "Increase Bid"
    ELSE IF Lt(MaxBid(k, target_acos), k.CPC) THEN "Reduce Bid"
    ELSE "Do Nothing"

\* The lambda of keywords.apply
KeywordAction(k, target_acos) ==
    IF Gt(MaxBid(k, target_acos), k.CPC) THEN "Increase Bid"
    ELSE IF Lt(MaxBid(k, target_acos), k.CPC) THEN "Reduce Bid"
    ELSE IF Gt(k.Clicks, Num(4)) /\ Eq(k.Orders, Num(0)) THEN "Pause"
    ELSE "Do Nothing"

KeywordMetrics(k, target_acos) ==
    [Campaign_1 |-> k.Campaign_1, Campaign_x |-> k.Campaign_x, Campaign_y |-> k.Campaign_y,
     Keyword |-> k.Keyword, Clicks |-> k.Clicks, Spend |-> k.Spend,
     Sales |-> k.Sales, Orders |-> k.Orders, CPC |-> k.CPC,
     RPC |-> Round2(RPC(k)),
     MaxBid |-> Round2(MaxBid(k, target_acos)),
     Action |-> KeywordAction(k, target_acos)]

\* search_terms["ACOS"]
SearchTermACOS(s) == Round2(Mul(ReplaceInf(Div(s.Spend, s.Sales), Num(0)), Num(100)))

\* target_acos * 100, where target_acos is the float64 quotient value / 100 of a
\* whole percentage.  The product is not always that percentage again: for 7,
\* 14, 28, 55 and 56 it is the next float64 above (7.000000000000001), for
\* 29, 57 and 58 the next below.  Ulp stands for that distance: any amount
\* under the 0.01 step of a rounded ACOS compares the same way.
Ulp == Frac(1, 10000)
Add(x, y) == Frac(x.n * y.d + y.n * x.d, x.d * y.d)
Times100(target_acos) ==
    LET exact == Mul(target_acos, Num(100))
    IN  IF exact \in {Num(7), Num(14), Num(28), Num(55), Num(56)} THEN Add(exact, Ulp)
        ELSE IF exact \in {Num(29), Num(57), Num(58)} THEN Add(exact, Mul(Num(-1), Ulp))
        ELSE exact

\* The lambda of search_terms.apply; `and` evaluates left to right and stops
\* at the first False, so the match type is looked at only after the two tests.
SearchTermAction(s, acos, target_acos) ==
    IF Lt(acos, Times100(target_acos)) /\ Ge(s.Orders, Num(2))
    THEN IF s.MatchType = NA THEN AttributeError
         ELSE IF StripLower(s.MatchType) # "exact" THEN "Graduate"
         ELSE IF Gt(s.Clicks, Num(3)) /\ Eq(s.Orders, Num(0)) THEN "Negate"
         ELSE "Do Nothing"
    ELSE IF Gt(s.Clicks, Num(3)) /\ Eq(s.Orders, Num(0)) THEN "Negate"
    ELSE "Do Nothing"

SearchTermMetrics(s, target_acos) ==
    [Campaign |-> s.Campaign, Keyword |-> s.Keyword, MatchType |-> s.MatchType,
     CST |-> s.CST, Clicks |-> s.Clicks, Orders |-> s.Orders,
     Spend |-> Round2(s.Spend), Sales |-> Round2(s.Sales),
     ACOS |-> SearchTermACOS(s),
     Action |-> SearchTermAction(s, SearchTermACOS(s), target_acos)]

\* raised is TRUE when the call ends in an exception instead of returning.
calculate_metrics(data, target_acos) ==
    LET search_terms ==
            [i \in 1..Len(data.search_terms) |->
                SearchTermMetrics(data.search_terms[i], target_acos)]
    IN  [campaigns |-> [i \in 1..Len(data.campaigns) |-> CampaignMetrics(data.campaigns[i])],
         keywords |-> [i \in 1..Len(data.keywords) |->
                          KeywordMetrics(data.keywords[i], target_acos)],
         search_terms |-> search_terms,
         raised |-> \E i \in 1..Len(search_terms) : search_terms[i].Action = AttributeError]

(***************************************************************************)
(* update_output: the drill-down filters                                   *)
(***************************************************************************)
KeywordButtons ==
    [x \in {"increase-bid-btn", "reduce-bid-btn", "pause-btn", "do-nothing-btn"} |->
        CASE x = "increase-bid-btn" -> "Increase Bid"
          [] x = "reduce-bid-btn" -> "Reduce Bid"
          [] x = "pause-btn" -> "Pause"
          [] x = "do-nothing-btn" -> "Do Nothing"]

SearchTermButtons ==
    [x \in {"graduate-btn", "negate-btn", "do-nothing-search-btn"} |->
        CASE x = "graduate-btn" -> "Graduate"
          [] x = "negate-btn" -> "Negate"
          [] x = "do-nothing-search-btn" -> "Do Nothing"]

Buttons ==
    DOMAIN KeywordButtons \cup DOMAIN SearchTermButtons \cup {"reset-btn", "duplicate-btn"}

Dropdowns == {"campaign-dropdown", "keyword-dropdown", "search-term-dropdown"}

\* keywords restricted to the targeting values of search_terms, then
\* campaigns restricted to the campaigns of those keywords.
KeywordsOf(t, search_terms) ==
    Isin(t.keywords, "Keyword", Range(Column(search_terms, "Keyword")))

CampaignsOf(t, keywords) ==
    Isin(t.campaigns, "Campaign_1", Range(Column(keywords, "Campaign_1")))

Restricted(t, search_terms) ==
    [campaigns |-> CampaignsOf(t, KeywordsOf(t, search_terms)),
     keywords |-> KeywordsOf(t, search_terms),
     search_terms |-> search_terms]

\* if action_filter: ... else: ...
KeywordActionStep(metrics, button_id) ==
    IF button_id \in DOMAIN KeywordButtons
    THEN LET keywords == WithAction(metrics.keywords, KeywordButtons[button_id])
         IN  [campaigns |-> CampaignsOf(metrics, keywords),
              keywords |-> keywords,
              search_terms |->
                  Isin(metrics.search_terms, "Keyword", Range(Column(keywords, "Keyword")))]
    ELSE [campaigns |-> metrics.campaigns,
          keywords |-> metrics.keywords,
          search_terms |-> metrics.search_terms]

\* if selected_search_terms: ...
SearchTermSelectionStep(t, selected_search_terms) ==
    IF selected_search_terms # {}
    THEN Restricted(t, Isin(t.search_terms, "CST", selected_search_terms))
    ELSE t

\* if search_term_filter: ...
SearchTermActionStep(t, button_id) ==
    IF button_id \in DOMAIN SearchTermButtons
    THEN Restricted(t, WithAction(t.search_terms, SearchTermButtons[button_id]))
    ELSE t

\* The duplicate query staying in force for every button but Reset Filters.
DuplicateStepUnlessReset(t, button_id) ==
    IF button_id \in Buttons \ {"reset-btn"}
    THEN Restricted(t, SortByCST(Duplicated(t.search_terms)))
    ELSE t

\* if find_duplicates: ...
DuplicateStep(t, button_id) ==
    IF button_id = "duplicate-btn"
    THEN Restricted(t, SortByCST(Duplicated(t.search_terms)))
    ELSE t

\* if selected_campaigns: ...
CampaignSelectionStep(t, selected_campaigns) ==
    IF selected_campaigns # {}
    THEN [campaigns |-> Isin(t.campaigns, "Campaign_1", selected_campaigns),
          keywords |-> Isin(t.keywords, "Campaign_1", selected_campaigns),
          search_terms |-> Isin(t.search_terms, "Campaign", selected_campaigns)]
    ELSE t

\* if selected_keywords: ...
KeywordSelectionStep(t, selected_keywords) ==
    IF selected_keywords # {}
    THEN LET keywords == Isin(t.keywords, "Keyword", selected_keywords)
         IN  [campaigns |-> CampaignsOf(t, keywords),
              keywords |-> keywords,
              search_terms |-> Isin(t.search_terms, "Keyword", selected_keywords)]
    ELSE t

\* Series.sum(): missing values are skipped.
RECURSIVE Sum(_)
Sum(s) ==
    IF s = <<>> THEN Num(0)
    ELSE IF IsNaN(Head(s)) THEN Sum(Tail(s))
    ELSE Add(Head(s), Sum(Tail(s)))

\* campaigns["ACOS"].mean(): the mean of the campaigns' own ratios.
mean_acos(campaigns) ==
    Div(Sum(Column(campaigns, "ACOS")), Num(Len(campaigns)))

\* average_acos = (total_spend / total_sales * 100) if total_sales > 0 else 0
average_acos(campaigns) ==
    LET total_spend == Sum(Column(campaigns, "Spend"))
        total_sales == Sum(Column(campaigns, "Sales"))
    IN  IF Gt(total_sales, Num(0))
        THEN Mul(Div(total_spend, total_sales), Num(100))
        ELSE Num(0)

\* The summary dictionary, over the frames the filters left.
summary(campaigns, keywords, search_terms) ==
    [TotalCampaigns |-> Len(campaigns),
     TotalKeywords |-> Len(keywords),
     TotalSearchTerms |-> Len(search_terms),
     ACOS |-> Round2(average_acos(campaigns)),
     TotalRevenue |-> Round2(Sum(Column(campaigns, "Sales"))),
     TotalClicks |-> Sum(Column(campaigns, "Clicks"))]

\* Lines 288-394 with the keyword selection taking the place of the
\* search-term selection when both dropdowns hold a value.
ApplyFiltersKeywordFirst(metrics, selected_campaigns, selected_keywords, selected_search_terms, button_id) ==
    LET t1 == KeywordActionStep(metrics, button_id)
        t2 == IF selected_keywords # {} THEN t1
              ELSE SearchTermSelectionStep(t1, selected_search_terms)
        t3 == SearchTermActionStep(t2, button_id)
        t4 == DuplicateStep(t3, button_id)
        t5 == CampaignSelectionStep(t4, selected_campaigns)
        t6 == KeywordSelectionStep(t5, selected_keywords)
    IN  [message |-> "Audit Summary",
         summary |-> <<summary(t6.campaigns, t6.keywords, t6.search_terms)>>,
         campaign_options |-> Unique(Column(t4.campaigns, "Campaign_1")),
         keyword_options |-> Unique(Column(t5.keywords, "Keyword")),
         search_term_options |-> Unique(Column(t1.search_terms, "CST")),
         campaigns |-> t6.campaigns,
         keywords |-> t6.keywords,
         search_terms |-> t6.search_terms]

\* Lines 288-394 applied to the triple `metrics`: the three filtered frames
\* and the three option lists, each taken where the code takes it, and the
\* summary of lines 429-444.  summary holds <<>> or the dictionary.
ApplyFilters(metrics, selected_campaigns, selected_keywords, selected_search_terms, button_id) ==
    LET t1 == KeywordActionStep(metrics, button_id)
        t2 == SearchTermSelectionStep(t1, selected_search_terms)
        t3 == SearchTermActionStep(t2, button_id)
        t4 == DuplicateStep(t3, button_id)
        t5 == CampaignSelectionStep(t4, selected_campaigns)
        t6 == KeywordSelectionStep(t5, selected_keywords)
    IN  [message |-> "Audit Summary",
         summary |-> <<summary(t6.campaigns, t6.keywords, t6.search_terms)>>,
         campaign_options |-> Unique(Column(t4.campaigns, "Campaign_1")),
         keyword_options |-> Unique(Column(t5.keywords, "Keyword")),
         search_term_options |-> Unique(Column(t1.search_terms, "CST")),
         campaigns |-> t6.campaigns,
         keywords |-> t6.keywords,
         search_terms |-> t6.search_terms]

\* return "Please upload both files.", [], [], [], [], [], [], [], [], []
PleaseUpload ==
    [message |-> "Please upload both files.",
     summary |-> <<>>,
     campaign_options |-> <<>>, keyword_options |-> <<>>, search_term_options |-> <<>>,
     campaigns |-> <<>>, keywords |-> <<>>, search_terms |-> <<>>]

\* The guard written with `and`: with one upload missing the callback goes on
\* to parse_contents(None), which raises.
ComputeMetricsUnlessBothMissing(bulk_content, str_content, target_acos) ==
    IF bulk_content = <<>> /\ str_content = <<>>
    THEN <<>>
    ELSE IF bulk_content = <<>> \/ str_content = <<>>
    THEN <<[raised |-> TRUE]>>
    ELSE <<calculate_metrics(load_and_clean_data(bulk_content[1], str_content[1]),
                             Div(Num(target_acos), Num(100)))>>

\* An upload input holds <<>> (None) or <<sheet>>.
\* data = load_and_clean_data(...); metrics = calculate_metrics(data, target_acos / 100)
ComputeMetrics(bulk_content, str_content, target_acos) ==
    IF bulk_content = <<>> \/ str_content = <<>>
    THEN <<>>
    ELSE <<calculate_metrics(load_and_clean_data(bulk_content[1], str_content[1]),
                             Div(Num(target_acos), Num(100)))>>

\* The callback, given the value `computed` of ComputeMetrics on its first three inputs.
update_output(computed, selected_campaigns, selected_keywords, selected_search_terms, button_id) ==
    IF computed = <<>>
    THEN [raised |-> FALSE, out |-> PleaseUpload]
    ELSE IF computed[1].raised
    THEN [raised |-> TRUE, out |-> PleaseUpload]
    ELSE [raised |-> FALSE,
          out |-> ApplyFilters(computed[1], selected_campaigns, selected_keywords,
                               selected_search_terms, button_id)]

(***************************************************************************)
(* The uploaded sheets                                                     *)
(***************************************************************************)
MaxCampaigns == 2
MaxKeywords == 2
MaxSearchTerms == 2
MaxRepeatedTerms == 4
MaxSelected == 1

Money(cents) == Frac(cents, 100)

Perf(imp, clicks, spend, sales, orders, cpc) ==
    [Imp |-> imp, Clicks |-> clicks, Spend |-> spend,
     Sales |-> sales, Orders |-> orders, CPC |-> cpc]

BulkRow(entity, campaign, campaign_1, keyword, p) ==
    [Entity |-> entity, Campaign |-> campaign, Campaign_1 |-> campaign_1,
     Keyword |-> keyword, Imp |-> p.Imp, Clicks |-> p.Clicks, Spend |-> p.Spend,
     Sales |-> p.Sales, Orders |-> p.Orders, CPC |-> p.CPC]

SearchTermRow(campaign, keyword, match_type, cst, p) ==
    [Campaign |-> campaign, Keyword |-> keyword, MatchType |-> match_type, CST |-> cst,
     Clicks |-> p.Clicks, Spend |-> p.Spend, Sales |-> p.Sales, Orders |-> p.Orders]

\* The account: campaign names in sheet order, keyword texts, search-term texts.
CampaignNames == <<"Alpha", "Beta", "Gamma">>
KeywordTexts == {"shoes", "boots"}
CustomerSearchTerms == {"red shoes", "blue shoes"}

CampaignPerf == Perf(Num(1000), Num(20), Money(5000), Money(20000), Num(4), Money(250))
\* A campaign that spent without selling.
NoSalesPerf == Perf(Num(600), Num(6), Money(3000), Money(0), Num(0), Money(500))
\* The first campaign of the account sold, the others did not.
CampaignPerfOf(i) == IF i = 1 THEN CampaignPerf ELSE NoSalesPerf
\* At a target of 35 %: Increase Bid, Reduce Bid
IncreaseBidPerf == Perf(Num(400), Num(2), Money(200), Money(1000), Num(1), Money(100))
ReduceBidPerf == Perf(Num(300), Num(5), Money(500), Money(0), Num(0), Money(100))
KeywordPerf == {IncreaseBidPerf, ReduceBidPerf}
\* At a target of 35 %: Graduate, Negate
GraduatePerf == Perf(Num(100), Num(5), Money(100), Money(1000), Num(2), Money(20))
NegatePerf == Perf(Num(100), Num(5), Money(500), Money(0), Num(0), Money(100))
SearchTermPerf == {GraduatePerf, NegatePerf}

\* The campaigns present in the bulk sheet: the first n of the account.  A
\* keyword of a campaign that is not among them has no campaign row.
CampaignTables ==
    {[i \in 1..n |->
         BulkRow("Campaign", CampaignNames[i], CampaignNames[i], NA, CampaignPerfOf(i))] :
        n \in 1..MaxCampaigns}

KeywordCampaigns == {CampaignNames[i] : i \in 1..2}

KeywordRows ==
    {BulkRow("Keyword", NA, c, k, p) : c \in KeywordCampaigns, k \in KeywordTexts, p \in KeywordPerf}

\* The first keyword row is fixed, the others range over KeywordRows.
KeywordTables ==
    {<<BulkRow("Keyword", NA, "Alpha", "shoes", IncreaseBidPerf)>> \o rest :
        rest \in [1..(MaxKeywords - 1) -> KeywordRows]}

BulkSheets == {c \o k : c \in CampaignTables, k \in KeywordTables}

SearchTermRows ==
    {SearchTermRow(c, k, "broad", t, p) :
        c \in KeywordCampaigns, k \in KeywordTexts, t \in CustomerSearchTerms,
        p \in SearchTermPerf}

\* Reports whose first row is fixed and whose other rows range over
\* SearchTermRows.
HierarchyReports ==
    {<<SearchTermRow("Alpha", "shoes", "broad", "red shoes", GraduatePerf)>> \o rest :
        rest \in [1..(MaxSearchTerms - 1) -> SearchTermRows]}

StrSheets == HierarchyReports

\* The reference account: two campaigns with one keyword each.  Reports that
\* repeat its search terms under either keyword, in any order.
ReferenceBulkSheet ==
    <<BulkRow("Campaign", "Alpha", "Alpha", NA, CampaignPerf),
      BulkRow("Campaign", "Beta", "Beta", NA, NoSalesPerf),
      BulkRow("Keyword", NA, "Alpha", "shoes", IncreaseBidPerf),
      BulkRow("Keyword", NA, "Beta", "boots", ReduceBidPerf)>>

RepeatedTermRows ==
    {SearchTermRow("Alpha", "shoes", "broad", t, NegatePerf) : t \in CustomerSearchTerms}
    \cup {SearchTermRow("Beta", "boots", "broad", t, NegatePerf) : t \in CustomerSearchTerms}

RepeatedTermReports ==
    {<<SearchTermRow("Alpha", "shoes", "broad", "red shoes", NegatePerf)>> \o rest :
        rest \in [1..(MaxRepeatedTerms - 1) -> RepeatedTermRows]}

(***************************************************************************)
(* The columns of the uploaded sheets                                      *)
(***************************************************************************)
\* The columns the code reads, under the names they have after the renames
\* of load_and_clean_data.
BulkColumns ==
    {"Entity", "Campaign", "Campaign_1", "Ad Group", "Ad Group_1", "Keyword", "Match Type",
     "Bid", "Daily Budget", "Bidding Strategy", "Imp", "Clicks", "CTR", "Spend", "Sales",
     "Orders", "Units", "CVR", "ACOS", "CPC"}

StrColumns ==
    {"Campaign", "Ad Group", "Keyword", "Match Type", "CST", "Imp", "Clicks", "CTR", "CPC",
     "Spend", "Sales", "ACOS", "Orders", "Units", "CVR"}

AllColumns == [bulk |-> BulkColumns, str |-> StrColumns]

required_columns ==
    [campaigns |-> {"Sales", "Clicks", "Impressions", "Spend", "Orders", "Daily Budget",
                    "Bidding Strategy"},
     keywords |-> {"Sales", "Clicks", "Spend", "Orders", "Ad Group Name", "Campaign Name"},
     search_terms |-> {"Sales", "Clicks", "Spend", "Orders", "Ad Group Name", "Campaign Name"}]

campaign_columns_to_show ==
    {"Campaign", "Daily Budget", "Bidding Strategy", "Imp", "Clicks", "CTR", "Spend", "CPC",
     "Sales", "ACOS", "Orders", "CVR"}

search_term_columns_to_show ==
    {"Campaign", "Ad Group", "Keyword", "Match Type", "CST", "Imp", "Clicks", "CTR", "CPC",
     "Spend", "Sales", "ACOS", "Orders", "CVR", "Action"}

keyword_columns_to_show ==
    {"Campaign_1", "Ad Group_1", "Bid", "Keyword", "Match Type", "Imp", "Clicks", "CTR",
     "Spend", "Sales", "Orders", "Units", "CVR", "ACOS", "CPC", "Max Bid", "RPC", "Action"}

\* The columns of the three frames calculate_metrics returns.  The merge
\* renames the keywords' own "Campaign" to "Campaign_x" and adds "Campaign_y".
MetricColumns(columns) ==
    [campaigns |-> columns.bulk \cup required_columns.campaigns
                       \cup {"CTR", "CPC", "ACOS", "Conversion Rate"},
     keywords |-> (columns.bulk \ {"Campaign"}) \cup {"Campaign_x", "Campaign_y"}
                      \cup required_columns.keywords \cup {"RPC", "Max Bid", "Action"},
     search_terms |-> columns.str \cup {"ACOS"} \cup required_columns.search_terms
                          \cup {"Action"}]

\* Whether the callback ends in an exception over sheets that have rows of
\* every kind: a subscript with a column that the frame does not have.
Raises(columns) ==
    LET m == MetricColumns(columns)
    IN  \/ "Entity" \notin columns.bulk
        \/ ~({"Campaign", "CST"} \subseteq columns.str)
        \/ "Keyword" \notin columns.bulk
        \/ ~({"Campaign", "Campaign_1"} \subseteq columns.bulk)
        \/ "CPC" \notin m.keywords
        \/ ~(campaign_columns_to_show \subseteq m.campaigns)
        \/ ~(search_term_columns_to_show \subseteq m.search_terms)
        \/ ~(keyword_columns_to_show \subseteq m.keywords)

\* df[col] = 0 for the required columns the frame does not have.
InsertZero(df, present, required) ==
    [i \in 1..Len(df) |->
        [c \in DOMAIN df[i] |-> IF c \in required /\ c \notin present THEN Num(0) ELSE df[i][c]]]

\* calculate_metrics over frames with the columns `columns`; the ACOS of the
\* search terms is 0 when the report has no Sales or no Spend column.
calculate_metrics_of(data, target_acos, columns) ==
    LET filled ==
            [campaigns |-> InsertZero(data.campaigns, columns.bulk, required_columns.campaigns),
             keywords |-> InsertZero(data.keywords, columns.bulk, required_columns.keywords),
             search_terms |-> InsertZero(data.search_terms, columns.str,
                                         required_columns.search_terms)]
        m == calculate_metrics(filled, target_acos)
        search_terms ==
            IF {"Sales", "Spend"} \subseteq columns.str THEN m.search_terms
            ELSE [i \in 1..Len(m.search_terms) |->
                     [m.search_terms[i] EXCEPT
                         !.ACOS = Num(0),
                         !.Action = SearchTermAction(filled.search_terms[i], Num(0),
                                                     target_acos)]]
    IN  [campaigns |-> m.campaigns,
         keywords |-> m.keywords,
         search_terms |-> search_terms,
         raised |-> \E i \in 1..Len(search_terms) : search_terms[i].Action = AttributeError]

\* ComputeMetrics over sheets with the columns `columns`.
ComputeMetricsOf(bulk_content, str_content, target_acos, columns) ==
    IF bulk_content = <<>> \/ str_content = <<>>
    THEN <<>>
    ELSE IF Raises(columns)
    THEN <<[raised |-> TRUE]>>
    ELSE <<calculate_metrics_of(load_and_clean_data(bulk_content[1], str_content[1]),
                                Div(Num(target_acos), Num(100)), columns)>>

\* A sheet has every column, or every column but one; the Entity column is
\* always there.
Headers(full) == {full} \cup {full \ {c} : c \in full \ {"Entity"}}

(***************************************************************************)
(* src/dash_audit.py: the variant with a selectable campaign table         *)
(***************************************************************************)
\* load_and_clean_data and calculate_metrics of dash_audit.py: the rows are
\* partitioned by Entity, without a join, and calculate_metrics adds columns
\* to the three frames and keeps every row.
dash_audit_metrics(bulk_data, str_data) ==
    LET bulk == SelectSeq(bulk_data, LAMBDA r : r.Entity # NA)
    IN  [campaigns |-> SelectSeq(bulk, LAMBDA r : r.Entity = "Campaign"),
         keywords |-> SelectSeq(bulk, LAMBDA r : r.Entity = "Keyword"),
         search_terms |-> SelectSeq(str_data, LAMBDA r : r.Campaign # NA /\ r.CST # NA)]

\* update_output of dash_audit.py: the summary is built from the frames of
\* calculate_metrics, then the keywords are filtered by the selected campaign.
dash_audit_update_output(bulk_content, str_content, selected_campaign, campaign_data) ==
    IF bulk_content = <<>> \/ str_content = <<>>
    THEN PleaseUpload
    ELSE LET m == dash_audit_metrics(bulk_content[1], str_content[1])
             keywords ==
                 IF selected_campaign # <<>> /\ campaign_data # <<>>
                 THEN LET selected_campaign_name ==
                              campaign_data[selected_campaign[1]].Campaign
                      IN  SelectSeq(m.keywords, LAMBDA k : k.Campaign = selected_campaign_name)
                 ELSE m.keywords
         IN  [message |-> "Audit Summary",
              summary |-> <<[TotalCampaigns |-> Len(m.campaigns),
                             TotalKeywords |-> Len(m.keywords),
                             TotalSearchTerms |-> Len(m.search_terms)]>>,
              campaigns |-> m.campaigns,
              keywords |-> keywords,
              search_terms |-> m.search_terms]

\* The bulk sheets, and the same sheets with the Campaign Name cell of the
\* keyword rows filled in.
NamedKeywords(sheet) ==
    [i \in 1..Len(sheet) |->
        IF sheet[i].Entity = "Keyword"
        THEN [sheet[i] EXCEPT !.Campaign = sheet[i].Campaign_1]
        ELSE sheet[i]]

DashAuditBulkSheets == BulkSheets \cup {NamedKeywords(sheet) : sheet \in BulkSheets}

(***************************************************************************)
(* The dashboard: the inputs of the callback and what it last returned     *)
(***************************************************************************)
\* metrics holds ComputeMetrics of the current uploads and target: the
\* callback recomputes it on every call, and it only changes when they do.
\* selected_rows is the selected_rows input of the campaign table of
\* src/dash_audit.py, written only under SpecDashAudit.
\* chosen is a history variable, written only under SpecOrder: the drill
\* button the user clicked last, "" after Reset Filters or before any click.
\* columns holds the columns of the two uploaded sheets; only the uploads of
\* SpecColumns leave columns out.
VARIABLES bulk_content, str_content, target_acos,
          selected_campaigns, selected_keywords, selected_search_terms,
          triggered, metrics, output, callback_error, chosen, selected_rows, columns

vars == <<bulk_content, str_content, target_acos,
          selected_campaigns, selected_keywords, selected_search_terms,
          triggered, metrics, output, callback_error, chosen, selected_rows, columns>>

uploads == <<bulk_content, str_content, target_acos, metrics, chosen, selected_rows, columns>>

\* Dash calls update_output with the new input values; an exception leaves
\* the outputs as they were.
Respond ==
    LET r == update_output(metrics', selected_campaigns', selected_keywords',
                           selected_search_terms', triggered')
    IN  /\ callback_error' = r.raised
        /\ output' = IF r.raised THEN output ELSE r.out

Init ==
    /\ bulk_content = <<>>
    /\ str_content = <<>>
    /\ target_acos = 35
    /\ selected_campaigns = {}
    /\ selected_keywords = {}
    /\ selected_search_terms = {}
    /\ triggered = "."
    /\ metrics = <<>>
    /\ output = PleaseUpload
    /\ callback_error = FALSE
    /\ chosen = ""
    /\ selected_rows = <<>>
    /\ columns = AllColumns

Upload(bulk_sheets, str_sheets) ==
    /\ \/ /\ bulk_content = <<>>
          /\ \E sheet \in bulk_sheets : bulk_content' = <<sheet>>
          /\ triggered' = "bulk-file-upload"
          /\ UNCHANGED str_content
       \/ /\ str_content = <<>>
          /\ \E sheet \in str_sheets : str_content' = <<sheet>>
          /\ triggered' = "str-file-upload"
          /\ UNCHANGED bulk_content
    /\ metrics' = ComputeMetrics(bulk_content', str_content', target_acos)
    /\ UNCHANGED <<target_acos, selected_campaigns, selected_keywords, selected_search_terms,
                   chosen, selected_rows, columns>>
    /\ Respond

UploadFile == Upload(BulkSheets, StrSheets)

\* A dropdown offers the options the callback last returned.
Choices(options) == {c \in SUBSET Range(options) : Cardinality(c) <= MaxSelected}

SelectCampaigns ==
    /\ \E c \in Choices(output.campaign_options) :
          /\ c # selected_campaigns
          /\ selected_campaigns' = c
    /\ triggered' = "campaign-dropdown"
    /\ UNCHANGED <<uploads, selected_keywords, selected_search_terms>>
    /\ Respond

SelectKeywords ==
    /\ \E k \in Choices(output.keyword_options) :
          /\ k # selected_keywords
          /\ selected_keywords' = k
    /\ triggered' = "keyword-dropdown"
    /\ UNCHANGED <<uploads, selected_campaigns, selected_search_terms>>
    /\ Respond

SelectSearchTerms ==
    /\ \E t \in Choices(output.search_term_options) :
          /\ t # selected_search_terms
          /\ selected_search_terms' = t
    /\ triggered' = "search-term-dropdown"
    /\ UNCHANGED <<uploads, selected_campaigns, selected_keywords>>
    /\ Respond

ClickButton ==
    /\ \E b \in Buttons : triggered' = b
    /\ UNCHANGED <<uploads, selected_campaigns, selected_keywords, selected_search_terms>>
    /\ Respond

\* The same click, with the history variable recording it.
ClickAndRecord ==
    /\ \E b \in Buttons : triggered' = b
    /\ chosen' = IF triggered' = "reset-btn" THEN "" ELSE triggered'
    /\ UNCHANGED <<bulk_content, str_content, target_acos, metrics, selected_campaigns,
                   selected_keywords, selected_search_terms, selected_rows, columns>>
    /\ Respond

Next ==
    \/ UploadFile
    \/ SelectCampaigns
    \/ SelectKeywords
    \/ SelectSearchTerms
    \/ ClickButton

Spec == Init /\ [][Next]_vars

\* The dashboard over the reference account, with the clicks recorded.
UploadOrdered == Upload({ReferenceBulkSheet}, HierarchyReports)

NextOrder ==
    \/ UploadOrdered
    \/ SelectCampaigns
    \/ SelectKeywords
    \/ SelectSearchTerms
    \/ ClickAndRecord

SpecOrder == Init /\ [][NextOrder]_vars

\* The dashboard over the reports that repeat search terms, with the clicks
\* on Find Duplicates and on Reset Filters.
UploadRepeated == Upload({ReferenceBulkSheet}, RepeatedTermReports)

ClickDuplicates ==
    /\ \E b \in {"duplicate-btn", "reset-btn"} : triggered' = b
    /\ UNCHANGED <<uploads, selected_campaigns, selected_keywords, selected_search_terms>>
    /\ Respond

NextDuplicates ==
    \/ UploadRepeated
    \/ SelectCampaigns
    \/ SelectKeywords
    \/ SelectSearchTerms
    \/ ClickDuplicates

SpecDuplicates == Init /\ [][NextDuplicates]_vars

(***************************************************************************)
(* One row at a time: calculate_metrics over the values a cell can hold    *)
(***************************************************************************)
TargetAcosValues == {35, 7}

MetricCampaignRows ==
    {BulkRow("Campaign", "Alpha", "Alpha", NA, Perf(imp, clicks, spend, sales, orders, NaN)) :
        imp \in {Num(0), Num(1000)}, clicks \in {Num(0), Num(20)},
        spend \in {Money(0), Money(5000)}, sales \in {Money(0), Money(20000)},
        orders \in {Num(0), Num(4)}}

MetricKeywordRows ==
    {BulkRow("Keyword", NA, "Alpha", "shoes", Perf(Num(400), clicks, Money(300), sales, orders, cpc)) :
        clicks \in {Num(0), Num(5), Num(10), NaN}, sales \in {Money(0), Money(1000)},
        orders \in {Num(0), Num(1)}, cpc \in {Money(0), Money(35), Money(100), NaN}}

MetricSearchTermRows ==
    {SearchTermRow("Alpha", "shoes", m, "red shoes", Perf(Num(100), clicks, spend, sales, orders, NaN)) :
        m \in {"broad", " EXACT ", NA}, clicks \in {Num(0), Num(4)},
        spend \in {Money(0), Money(70), Money(500)}, sales \in {Money(0), Money(1000)},
        orders \in {Num(0), Num(2), NaN}}

\* Sheets of a single row.
MetricBulkSheets == {<<r>> : r \in MetricCampaignRows \cup MetricKeywordRows}
MetricStrSheets == {<<r>> : r \in MetricSearchTermRows}

UploadRow == Upload(MetricBulkSheets, MetricStrSheets)

ChangeTargetAcos ==
    /\ \E t \in TargetAcosValues :
          /\ t # target_acos
          /\ target_acos' = t
    /\ triggered' = "target-acos"
    /\ metrics' = ComputeMetrics(bulk_content, str_content, target_acos')
    /\ UNCHANGED <<bulk_content, str_content, selected_campaigns, selected_keywords,
                   selected_search_terms, chosen, selected_rows, columns>>
    /\ Respond

NextMetrics == UploadRow \/ ChangeTargetAcos

SpecMetrics == Init /\ [][NextMetrics]_vars

(***************************************************************************)
(* src/dash_audit.py: its callback                                         *)
(***************************************************************************)
\* campaign_data is the State of the campaign table: what the callback
\* returned last.
RespondDashAudit ==
    /\ output' = dash_audit_update_output(bulk_content', str_content', selected_rows',
                                          output.campaigns)
    /\ callback_error' = FALSE

UploadToDashAudit ==
    /\ \/ /\ bulk_content = <<>>
          /\ \E sheet \in DashAuditBulkSheets : bulk_content' = <<sheet>>
          /\ triggered' = "bulk-file-upload"
          /\ UNCHANGED str_content
       \/ /\ str_content = <<>>
          /\ \E sheet \in StrSheets : str_content' = <<sheet>>
          /\ triggered' = "str-file-upload"
          /\ UNCHANGED bulk_content
    /\ UNCHANGED <<target_acos, metrics, chosen, selected_campaigns, selected_keywords,
                   selected_search_terms, selected_rows, columns>>
    /\ RespondDashAudit

\* row_selectable="single": the user selects one row of the campaign table.
SelectRow ==
    /\ \E i \in 1..Len(output.campaigns) :
          /\ selected_rows # <<i>>
          /\ selected_rows' = <<i>>
    /\ triggered' = "campaign-table"
    /\ UNCHANGED <<bulk_content, str_content, target_acos, metrics, chosen,
                   selected_campaigns, selected_keywords, selected_search_terms, columns>>
    /\ RespondDashAudit

NextDashAudit == UploadToDashAudit \/ SelectRow

SpecDashAudit == Init /\ [][NextDashAudit]_vars

(***************************************************************************)
(* Sheets that leave a column out                                          *)
(***************************************************************************)
UploadColumns ==
    /\ \/ /\ bulk_content = <<>>
          /\ bulk_content' = <<ReferenceBulkSheet>>
          /\ \E h \in Headers(BulkColumns) : columns' = [columns EXCEPT !.bulk = h]
          /\ triggered' = "bulk-file-upload"
          /\ UNCHANGED str_content
       \/ /\ str_content = <<>>
          /\ \E sheet \in HierarchyReports : str_content' = <<sheet>>
          /\ \E h \in Headers(StrColumns) : columns' = [columns EXCEPT !.str = h]
          /\ triggered' = "str-file-upload"
          /\ UNCHANGED bulk_content
    /\ metrics' = ComputeMetricsOf(bulk_content', str_content', target_acos, columns')
    /\ UNCHANGED <<target_acos, selected_campaigns, selected_keywords, selected_search_terms,
                   chosen, selected_rows>>
    /\ Respond

NextColumns == UploadColumns \/ ClickButton

SpecColumns == Init /\ [][NextColumns]_vars

(***************************************************************************)
(* Sheets with blank cells                                                 *)
(***************************************************************************)
\* A bulk row of either kind, or of no kind, with or without the campaign
\* name; a search-term row with or without its campaign, targeting and text.
BlankBulkRows ==
    {BulkRow(e, IF e = "Campaign" THEN c ELSE NA, c, IF e = "Keyword" THEN "shoes" ELSE NA,
             IncreaseBidPerf) :
        e \in {"Campaign", "Keyword", NA}, c \in {"Alpha", NA}}

BlankSearchTermRows ==
    {SearchTermRow(c, k, "broad", t, GraduatePerf) :
        c \in {"Alpha", NA}, k \in {"shoes", NA}, t \in {"red shoes", NA}}

\* One campaign with one keyword and one search term, followed by such a row.
BlankBulkSheets ==
    {<<BulkRow("Campaign", "Alpha", "Alpha", NA, CampaignPerf),
       BulkRow("Keyword", NA, "Alpha", "shoes", IncreaseBidPerf), r>> : r \in BlankBulkRows}

BlankReports ==
    {<<SearchTermRow("Alpha", "shoes", "broad", "red shoes", GraduatePerf), r>> :
        r \in BlankSearchTermRows}

UploadBlank == Upload(BlankBulkSheets, BlankReports)

NextBlank == UploadBlank \/ ClickButton

SpecBlank == Init /\ [][NextBlank]_vars

(***************************************************************************)
(* Selections at several levels                                            *)
(***************************************************************************)
\* An account whose first campaign has two keywords and whose second
\* campaign shares a keyword text with it.
SharedKeywordSheet ==
    <<BulkRow("Campaign", "Alpha", "Alpha", NA, CampaignPerf),
      BulkRow("Campaign", "Beta", "Beta", NA, NoSalesPerf),
      BulkRow("Keyword", NA, "Alpha", "shoes", IncreaseBidPerf),
      BulkRow("Keyword", NA, "Alpha", "boots", ReduceBidPerf),
      BulkRow("Keyword", NA, "Beta", "shoes", ReduceBidPerf)>>

UploadShared == Upload({SharedKeywordSheet}, HierarchyReports)

NextSelections ==
    \/ UploadShared
    \/ SelectCampaigns
    \/ SelectKeywords
    \/ SelectSearchTerms

SpecSelections == Init /\ [][NextSelections]_vars

(***************************************************************************)
(* One drill button after another                                          *)
(***************************************************************************)
UploadForModes == Upload({SharedKeywordSheet}, HierarchyReports)

NextModes == UploadForModes \/ ClickButton

SpecModes == Init /\ [][NextModes]_vars

(***************************************************************************)
(* Properties of calculate_metrics                                         *)
(***************************************************************************)
Computed == metrics # <<>>
ComputedCampaigns == IF Computed THEN metrics[1].campaigns ELSE <<>>
ComputedKeywords == IF Computed THEN metrics[1].keywords ELSE <<>>
ComputedSearchTerms == IF Computed THEN metrics[1].search_terms ELSE <<>>

\* The target the user entered, as a percentage.
TargetPercent == Num(target_acos)

\* C7: every search term with a present match type is labelled by the first
\* matching rule: Graduate if its ACOS is below the target ACOS, its orders are
\* at least 2 and its trimmed, lower-cased match type is not "exact"; otherwise
\* Negate if clicks > 3 and orders = 0; otherwise Do Nothing.
C7_SearchTermFirstMatch ==
    \A i \in 1..Len(ComputedSearchTerms) :
        LET s == ComputedSearchTerms[i]
        IN  s.MatchType # NA =>
                s.Action =
                    IF /\ Lt(s.ACOS, TargetPercent)
                       /\ Ge(s.Orders, Num(2))
                       /\ StripLower(s.MatchType) # "exact"
                    THEN "Graduate"
                    ELSE IF Gt(s.Clicks, Num(3)) /\ Eq(s.Orders, Num(0)) THEN "Negate"
                    ELSE "Do Nothing"

\* max(clicks, 1)
AtLeastOne(clicks) == IF Lt(clicks, Num(1)) THEN Num(1) ELSE clicks

\* Max Bid as the specification writes it: sales / max(clicks, 1) x target ratio
StatedMaxBid(k) ==
    Mul(Div(k.Sales, AtLeastOne(k.Clicks)), Div(TargetPercent, Num(100)))

\* C8: every keyword is labelled by the first matching rule, in this order:
\* Increase Bid if Max Bid > cost-per-click, Reduce Bid if Max Bid <
\* cost-per-click, Pause if clicks > 4 and orders = 0, Do Nothing otherwise.
C8_KeywordFirstMatch ==
    \A i \in 1..Len(ComputedKeywords) :
        LET k == ComputedKeywords[i]
            above == Gt(StatedMaxBid(k), k.CPC)
            below == Lt(StatedMaxBid(k), k.CPC)
            idle == Gt(k.Clicks, Num(4)) /\ Eq(k.Orders, Num(0))
        IN  /\ above => k.Action = "Increase Bid"
            /\ (~above /\ below) => k.Action = "Reduce Bid"
            /\ (~above /\ ~below /\ idle) => k.Action = "Pause"
            /\ (~above /\ ~below /\ ~idle) => k.Action = "Do Nothing"

\* A keyword with sales that meets the Pause rule and is labelled Reduce Bid,
\* because the bid rule comes first.
C8_Witness ==
    \E i \in 1..Len(ComputedKeywords) :
        LET k == ComputedKeywords[i]
        IN  /\ k.Action = "Reduce Bid"
            /\ Gt(k.Clicks, Num(4))
            /\ Eq(k.Orders, Num(0))
            /\ Gt(k.Sales, Num(0))

\* C9: classification is total: whatever the cells of a row hold, the call
\* returns and every keyword and every search term carries one label of its
\* label set.
C9_ClassificationTotal ==
    Computed =>
        /\ ~metrics[1].raised
        /\ \A i \in 1..Len(ComputedKeywords) : ComputedKeywords[i].Action \in KeywordActions
        /\ \A i \in 1..Len(ComputedSearchTerms) :
              ComputedSearchTerms[i].Action \in SearchTermActions

\* C10: CTR, CPC, ACOS and conversion rate of every campaign and the ACOS of
\* every search term are finite numbers.
C10_RatiosFinite ==
    /\ \A i \in 1..Len(ComputedCampaigns) :
          LET c == ComputedCampaigns[i]
          IN  IsFinite(c.CTR) /\ IsFinite(c.CPC) /\ IsFinite(c.ACOS) /\ IsFinite(c.ConversionRate)
    /\ \A i \in 1..Len(ComputedSearchTerms) : IsFinite(ComputedSearchTerms[i].ACOS)

(***************************************************************************)
(* Properties of the drill-down filters                                    *)
(***************************************************************************)
\* The callback has returned tables (and not the upload prompt).
Returned == Computed /\ output.message = "Audit Summary"

Full == metrics[1]

Count(df, r) == Cardinality({i \in 1..Len(df) : df[i] = r})
Occurrences(df, cst) == Cardinality({i \in 1..Len(df) : df[i].CST = cst})
Ascending(df) ==
    \A i, j \in 1..Len(df) : i < j => Collate(df[i].CST) <= Collate(df[j].CST)

\* C1: every returned search term has the keyword text of a returned keyword
\* as its targeting value.
C1_SearchTermsHaveKeyword ==
    Returned =>
        \A i \in 1..Len(output.search_terms) :
            \E j \in 1..Len(output.keywords) :
                output.keywords[j].Keyword = output.search_terms[i].Keyword

\* C2: every returned keyword has the Campaign_1 of a returned campaign.
C2_KeywordsHaveCampaign ==
    Returned =>
        \A i \in 1..Len(output.keywords) :
            \E j \in 1..Len(output.campaigns) :
                output.campaigns[j].Campaign_1 = output.keywords[i].Campaign_1

\* C3: a click on Reset Filters returns the full tables of calculate_metrics.
C3_ResetReturnsFull ==
    (Returned /\ triggered = "reset-btn") =>
        /\ output.campaigns = Full.campaigns
        /\ output.keywords = Full.keywords
        /\ output.search_terms = Full.search_terms

\* C4: filtering the returned triple again, with the same selection and the
\* same drill button, returns the same triple.
C4_FilterIdempotent ==
    Returned =>
        LET again == ApplyFilters(output, selected_campaigns, selected_keywords,
                                  selected_search_terms, triggered)
        IN  /\ again.campaigns = output.campaigns
            /\ again.keywords = output.keywords
            /\ again.search_terms = output.search_terms

\* C5 as stated: after Find Duplicates the search-term table holds exactly the
\* rows whose CST occurs at least twice in the unfiltered table, in ascending
\* order of CST.
C5_DuplicatesOfUnfiltered ==
    (Returned /\ triggered = "duplicate-btn") =>
        /\ \A r \in Range(Full.search_terms) \cup Range(output.search_terms) :
              Count(output.search_terms, r) =
                  IF Occurrences(Full.search_terms, r.CST) >= 2
                  THEN Count(Full.search_terms, r) ELSE 0
        /\ Ascending(output.search_terms)

\* A row passes the dropdown selections that are not empty.
PassesSelections(r) ==
    /\ selected_search_terms # {} => r.CST \in selected_search_terms
    /\ selected_campaigns # {} => r.Campaign \in selected_campaigns
    /\ selected_keywords # {} => r.Keyword \in selected_keywords

\* C5 as amended: after Find Duplicates the search-term table holds exactly the
\* rows whose CST occurs at least twice in the unfiltered table and that pass
\* the campaign, keyword and search-term selections, in ascending order of CST.
C5_DuplicatesWithinSelection ==
    (Returned /\ triggered = "duplicate-btn") =>
        /\ \A r \in Range(Full.search_terms) \cup Range(output.search_terms) :
              Count(output.search_terms, r) =
                  IF Occurrences(Full.search_terms, r.CST) >= 2 /\ PassesSelections(r)
                  THEN Count(Full.search_terms, r) ELSE 0
        /\ Ascending(output.search_terms)

\* Find Duplicates under a keyword selection returned two different search
\* terms, fewer rows than the report has duplicates, in another order than
\* the report lists them.
C5_Witness ==
    /\ Returned
    /\ triggered = "duplicate-btn"
    /\ selected_keywords # {}
    /\ Len(output.search_terms) >= 2
    /\ output.search_terms[1].CST # output.search_terms[Len(output.search_terms)].CST
    /\ Len(output.search_terms) < Len(Duplicated(Full.search_terms))
    /\ output.search_terms # Isin(Full.search_terms, "Keyword", selected_keywords)

\* C6: after a click or a selection, the returned tables are determined by the
\* uploads, the target and the choices made (drill button chosen last, three
\* selections), whatever the order of the interactions: they are the tables
\* the same choices give when the drill button is the interaction that comes
\* last.
C6_OrderIndependent ==
    (Returned /\ triggered \in Buttons \cup Dropdowns) =>
        LET last == ApplyFilters(Full, selected_campaigns, selected_keywords,
                                 selected_search_terms, chosen)
        IN  /\ output.campaigns = last.campaigns
            /\ output.keywords = last.keywords
            /\ output.search_terms = last.search_terms

(***************************************************************************)
(* Properties of the campaign and search-term ratios                       *)
(***************************************************************************)
\* C11: the CPC of every campaign is spend / clicks, with clicks = 0 replaced
\* by 1 in the denominator, in currency per click (rounded to 2 decimals).
C11_CampaignCPC ==
    \A i \in 1..Len(ComputedCampaigns) :
        LET c == ComputedCampaigns[i]
        IN  c.CPC = Round2(Div(c.Spend, Replace(c.Clicks, Num(0), Num(1))))

\* ACOS as the specification writes it: spend / sales x 100, sales = 0
\* replaced by 1 in the denominator, rounded to 2 decimals.
StatedSearchTermACOS(s) ==
    Round2(Mul(Div(s.Spend, Replace(s.Sales, Num(0), Num(1))), Num(100)))

\* C12: the ACOS of every search term is spend / sales x 100 with sales = 0
\* replaced by 1 in the denominator, so it is below the target only if that
\* value is.
C12_SearchTermACOS ==
    \A i \in 1..Len(ComputedSearchTerms) :
        LET s == ComputedSearchTerms[i]
        IN  /\ s.ACOS = StatedSearchTermACOS(s)
            /\ Lt(s.ACOS, TargetPercent) => Lt(StatedSearchTermACOS(s), TargetPercent)

(***************************************************************************)
(* Properties of the summary and of the option lists                       *)
(***************************************************************************)
\* C13: the summary ACOS is (sum of spend / sum of sales) x 100 over the rows
\* of the returned campaign table, rounded to 2 decimals, and 0 when the sum
\* of sales is 0.
C13_SummaryACOS ==
    Returned =>
        LET spend == Sum(Column(output.campaigns, "Spend"))
            sales == Sum(Column(output.campaigns, "Sales"))
        IN  output.summary[1].ACOS =
                IF Eq(sales, Num(0)) THEN Num(0)
                ELSE Round2(Mul(Div(spend, sales), Num(100)))

\* A selection left some campaigns of the account, not all, and their
\* sales are not 0.
C13_Witness ==
    /\ Returned
    /\ selected_campaigns # {}
    /\ output.campaigns # <<>>
    /\ Len(output.campaigns) < Len(Full.campaigns)
    /\ Gt(output.summary[1].ACOS, Num(0))

\* C14: the summary's Total Campaigns, Total Keywords and Total Search Terms
\* are the numbers of rows of the campaign, keyword and search-term tables
\* returned by the same invocation.
C14_SummaryCounts ==
    output.message = "Audit Summary" =>
        /\ output.summary[1].TotalCampaigns = Len(output.campaigns)
        /\ output.summary[1].TotalKeywords = Len(output.keywords)
        /\ output.summary[1].TotalSearchTerms = Len(output.search_terms)

\* C15: the campaign, keyword and search-term option lists are exactly the
\* identity values (Campaign_1, Keyword, CST) of the returned campaign,
\* keyword and search-term tables.
C15_OptionsOfReturned ==
    Returned =>
        /\ Range(output.campaign_options) = Range(Column(output.campaigns, "Campaign_1"))
        /\ Range(output.keyword_options) = Range(Column(output.keywords, "Keyword"))
        /\ Range(output.search_term_options) = Range(Column(output.search_terms, "CST"))

\* C16: while the bulk upload or the search-term upload is absent, the
\* callback returns "Please upload both files." with empty option lists and
\* empty tables, computes nothing and does not raise.
C16_PleaseUpload ==
    (bulk_content = <<>> \/ str_content = <<>>) =>
        /\ output.message = "Please upload both files."
        /\ output.campaign_options = <<>>
        /\ output.keyword_options = <<>>
        /\ output.search_term_options = <<>>
        /\ output.campaigns = <<>>
        /\ output.keywords = <<>>
        /\ output.search_terms = <<>>
        /\ metrics = <<>>
        /\ ~callback_error

\* The bulk sheet is uploaded, the report is not, and the user changed the
\* target ACOS.
C16_Witness ==
    /\ bulk_content # <<>>
    /\ str_content = <<>>
    /\ triggered = "target-acos"
    /\ output.message = "Please upload both files."

(***************************************************************************)
(* Properties of the columns                                               *)
(***************************************************************************)
\* C17: when both sheets are uploaded and the bulk sheet has its Entity
\* column, the callback does not raise, whichever other column a sheet
\* leaves out: it returns the audit summary and the tables.
C17_AbsentColumnsNeverRaise ==
    (bulk_content # <<>> /\ str_content # <<>> /\ "Entity" \in columns.bulk) =>
        /\ ~callback_error
        /\ output.message = "Audit Summary"

(***************************************************************************)
(* Properties of load_and_clean_data                                       *)
(***************************************************************************)
\* C18: no campaign or keyword row whose campaign name is missing, and no
\* search-term row whose campaign or customer search term is missing, is
\* among the frames handed to calculate_metrics and to the filters.
C18_NoMissingJoinKey ==
    Computed =>
        /\ \A i \in 1..Len(ComputedCampaigns) : ComputedCampaigns[i].Campaign_1 # NA
        /\ \A i \in 1..Len(ComputedKeywords) : ComputedKeywords[i].Campaign_1 # NA
        /\ \A i \in 1..Len(ComputedSearchTerms) :
              ComputedSearchTerms[i].Campaign # NA /\ ComputedSearchTerms[i].CST # NA

\* A drill button other than Reset Filters was the trigger, or a dropdown
\* holds a selection.
FilterActive ==
    \/ triggered \in (DOMAIN KeywordButtons) \cup (DOMAIN SearchTermButtons) \cup {"duplicate-btn"}
    \/ selected_campaigns # {}
    \/ selected_keywords # {}
    \/ selected_search_terms # {}

\* C19: while an action filter, the duplicate query or a selection is active,
\* every returned campaign is the campaign of a returned keyword and every
\* returned keyword is the targeting value of a returned search term.
C19_NoParentWithoutChild ==
    (Returned /\ FilterActive) =>
        /\ \A i \in 1..Len(output.campaigns) :
              \E j \in 1..Len(output.keywords) :
                  output.keywords[j].Campaign_1 = output.campaigns[i].Campaign_1
        /\ \A j \in 1..Len(output.keywords) :
              \E n \in 1..Len(output.search_terms) :
                  output.search_terms[n].Keyword = output.keywords[j].Keyword

\* The tables update_output returns for the current uploads and trigger when
\* the dropdowns hold the given selections.
ReturnedFor(c, k, s) == ApplyFilters(Full, c, k, s, triggered)

Rows(df) == Range(df)

\* Table by table, the rows returned for both selections are the rows
\* returned for the one and for the other.
Intersects(both, first, second) ==
    /\ Rows(both.campaigns) = Rows(first.campaigns) \cap Rows(second.campaigns)
    /\ Rows(both.keywords) = Rows(first.keywords) \cap Rows(second.keywords)
    /\ Rows(both.search_terms) = Rows(first.search_terms) \cap Rows(second.search_terms)

IntersectsBelow(both, first, second) ==
    /\ Rows(both.campaigns) \subseteq Rows(first.campaigns) \cap Rows(second.campaigns)
    /\ \A c \in Rows(both.campaigns) :
          \E k \in Rows(both.keywords) : k.Campaign_1 = c.Campaign_1
    /\ Rows(both.keywords) = Rows(first.keywords) \cap Rows(second.keywords)
    /\ Rows(both.search_terms) = Rows(first.search_terms) \cap Rows(second.search_terms)

Tables(r) == [campaigns |-> r.campaigns, keywords |-> r.keywords, search_terms |-> r.search_terms]

\* The dropdown selections applied to the frames t, in the order of the code.
WithSelections(t) ==
    KeywordSelectionStep(CampaignSelectionStep(t, selected_campaigns), selected_keywords)

\* The tables when the one drill mode of the button is applied and the two
\* others are not.
SingleMode(button_id) ==
    IF button_id \in DOMAIN KeywordButtons
    THEN WithSelections(SearchTermSelectionStep(
             [campaigns |-> CampaignsOf(Full, WithAction(Full.keywords, KeywordButtons[button_id])),
              keywords |-> WithAction(Full.keywords, KeywordButtons[button_id]),
              search_terms |->
                  Isin(Full.search_terms, "Keyword",
                       Range(Column(WithAction(Full.keywords, KeywordButtons[button_id]),
                                    "Keyword")))],
             selected_search_terms))
    ELSE LET t == SearchTermSelectionStep(Tables(Full), selected_search_terms)
         IN  IF button_id \in DOMAIN SearchTermButtons
             THEN WithSelections(Restricted(t, WithAction(t.search_terms,
                                                          SearchTermButtons[button_id])))
             ELSE IF button_id = "duplicate-btn"
             THEN WithSelections(Restricted(t, SortByCST(Duplicated(t.search_terms))))
             ELSE WithSelections(t)

\* C21: the returned tables are those of the one drill mode of the input that
\* triggered the invocation, with neither of the two other modes applied and
\* nothing left of a button clicked before.
C21_SingleDrillMode ==
    Returned => Tables(output) = SingleMode(triggered)

\* Negate is in force over a report that also has other search terms, and
\* the returned keywords carry two different labels: no keyword action
\* filter is in force with it.
C21_Witness ==
    /\ Returned
    /\ triggered = "negate-btn"
    /\ output.search_terms # <<>>
    /\ Len(output.search_terms) < Len(Full.search_terms)
    /\ Cardinality(Range(Column(output.keywords, "Action"))) = 2

\* The Keyword rows of the uploaded bulk sheet, in sheet order.
KeywordRowsOfSheet == SelectSeq(bulk_content[1], LAMBDA r : r.Entity = "Keyword")

\* C22: the joined keyword frame has exactly one row per Keyword row of the
\* bulk sheet, in the same order, each with the campaign name of the campaign
\* row that has its key, or with a missing one when no campaign row has it.
C22_OneRowPerKeyword ==
    Computed =>
        /\ Len(ComputedKeywords) = Len(KeywordRowsOfSheet)
        /\ \A i \in 1..Len(ComputedKeywords) :
              /\ ComputedKeywords[i].Keyword = KeywordRowsOfSheet[i].Keyword
              /\ ComputedKeywords[i].Campaign_1 = KeywordRowsOfSheet[i].Campaign_1
              /\ (\A j \in 1..Len(ComputedCampaigns) :
                     ComputedCampaigns[j].Campaign_1 # KeywordRowsOfSheet[i].Campaign_1)
                 => ComputedKeywords[i].Campaign_y = NA

\* keywords["Max Bid"] of a computed row before it is rounded.
UnroundedMaxBid(k) == MaxBid(k, Div(TargetPercent, Num(100)))

\* C23: a keyword is labelled Pause only if its unrounded Max Bid equals its
\* cost-per-click, and a keyword with clicks > 4, no orders, no sales and a
\* positive cost-per-click is labelled Reduce Bid.
C23_PauseOnlyOnEqualBid ==
    \A i \in 1..Len(ComputedKeywords) :
        LET k == ComputedKeywords[i]
        IN  /\ k.Action = "Pause" => Eq(UnroundedMaxBid(k), k.CPC)
            /\ (Gt(k.Clicks, Num(4)) /\ Eq(k.Orders, Num(0)) /\ Eq(k.Sales, Num(0))
                   /\ Gt(k.CPC, Num(0)))
               => k.Action = "Reduce Bid"

\* C23 as amended: a keyword is labelled Pause only if its unrounded Max Bid
\* is neither above nor below its cost-per-click, which is the case when the
\* two are equal and when either is missing; a keyword with clicks > 4, no
\* orders, no sales and a positive cost-per-click is labelled Reduce Bid.
C23_PauseOnlyWithoutBidRule ==
    \A i \in 1..Len(ComputedKeywords) :
        LET k == ComputedKeywords[i]
        IN  /\ k.Action = "Pause" =>
                  \/ Eq(UnroundedMaxBid(k), k.CPC)
                  \/ IsNaN(UnroundedMaxBid(k))
                  \/ IsNaN(k.CPC)
            /\ (Gt(k.Clicks, Num(4)) /\ Eq(k.Orders, Num(0)) /\ Eq(k.Sales, Num(0))
                   /\ Gt(k.CPC, Num(0)))
               => k.Action = "Reduce Bid"

\* A keyword with clicks > 4 and no orders is labelled Pause although its
\* cost-per-click is missing.
C23_Witness ==
    \E i \in 1..Len(ComputedKeywords) :
        LET k == ComputedKeywords[i]
        IN  k.Action = "Pause" /\ IsNaN(k.CPC) /\ Gt(k.Clicks, Num(4))

\* C24: after a keyword action button, with no dropdown selection, every
\* returned search term has a returned keyword of its own campaign with its
\* targeting text, labelled with the action of the button.
C24_SearchTermsOfOwnCampaign ==
    (/\ Returned
     /\ triggered \in DOMAIN KeywordButtons
     /\ selected_campaigns = {} /\ selected_keywords = {} /\ selected_search_terms = {}) =>
        \A n \in 1..Len(output.search_terms) :
            \E j \in 1..Len(output.keywords) :
                /\ output.keywords[j].Keyword = output.search_terms[n].Keyword
                /\ output.keywords[j].Campaign_1 = output.search_terms[n].Campaign
                /\ output.keywords[j].Action = KeywordButtons[triggered]

=============================================================================
